---- MODULE Spec2Model ----
(***************************************************************************)
(* Model of src/app.py (Market Intelligence Pro, a Streamlit script).      *)
(*                                                                         *)
(* One script run is a sequence of steps separated by the calls to the     *)
(* external providers (Apify scrape, Gemini narrative); everything the     *)
(* script does between two provider interactions is one action.            *)
(*                                                                         *)
(* Conventions.                                                            *)
(*  - Python None / NaN and every optional value is a record with a tag    *)
(*    field k, so that values of different shapes can be compared.         *)
(*  - Ratings are integers in tenths of a star (45 is 4.5); the formatted  *)
(*    average is in hundredths (450 is "4.50 Stars").                      *)
(*  - The title of the i-th raw record of a dataset is i: titles are       *)
(*    opaque and only identify a record.                                   *)
(*  - Coordinates are opaque: only their presence is modelled.             *)
(***************************************************************************)
EXTENDS Integers, Sequences, FiniteSets, TLC

\* ---------------------------------------------------------------- bounds
MaxItems == 3      \* longest dataset the scrape provider returns
MaxRating == 50    \* largest rating (tenths) given to the colour function
MaxReviews == 205  \* largest review count given to the size function

\* ------------------------------------------------------------- constants
max_retriesOneMore == 3 + 1
\* line 269
max_retries == 3

None == [k |-> "None"]

\* ------------------------------------------------------ input domains
Num(v) == [k |-> "num", v |-> v]
Null == [k |-> "null", v |-> 0]
Str == [k |-> "str", v |-> 0]          \* a value that is not a number

Loc(k, lat, lng) == [k |-> k, lat |-> lat, lng |-> lng]
LocOk == Loc("dict", "num", "num")
\* location shapes without usable coordinates: key absent from the record,
\* null, not a mapping, a mapping lacking lat, lacking lng, holding lat: null
BadLocs ==
    { Loc("absent", "missing", "missing"), Loc("null", "missing", "missing"),
      Loc("str", "missing", "missing"), Loc("dict", "missing", "num"),
      Loc("dict", "num", "missing"), Loc("dict", "null", "num") }

Raw(loc, score, reviews) ==
    [title |-> 0, location |-> loc, totalScore |-> score, reviewsCount |-> reviews]

\* the records a dataset is made of: every location shape without
\* coordinates (with a known rating and the largest review count), and
\* located records with null, unparseable, zero and two positive ratings
\* and a null or a common review count; the keys title, address, totalScore
\* and reviewsCount occur in every dataset
RawRecords ==
    { Raw(l, Num(40), Num(250)) : l \in BadLocs }
    \cup { Raw(LocOk, s, Num(60)) : s \in {Null, Str, Num(0), Num(35), Num(45)} }
    \cup { Raw(LocOk, s, Null) : s \in {Null, Num(35)} }

BusinessTypes == {"", "dentist", "plumber"}
Cities == {"", "Toronto"}
Countries == {"Canada"}
ProviderErrors == {"auth", "quota"}
RawRatings == {Null, Str} \cup { Num(v) : v \in 0..MaxRating }
RawReviews == {Null, Str} \cup { Num(v) : v \in 0..MaxReviews }

VARIABLES
    session_state,     \* st.session_state: map_data, analysis, kpis, df, last_search
    pc,                \* position of the script run
    business_type, city, country, submit_button,   \* form values of the run
    items,             \* raw records collected from the dataset
    df,                \* the local data frame after line 532, or None
    attempt,           \* loop variable of the retry loop
    exc,               \* the exception caught at line 558: where it was raised, its text
    msgs,              \* messages shown by the run (st.warning/error/info/success)
    scrapeCalls,       \* calls of actor(...).call in the run
    narrativeCalls,    \* calls of model.generate_content in the run
    rendered,          \* result sections rendered by the run
    crashed,           \* the run ended with an uncaught exception
    rating_in,         \* colour check: a pair of raw ratings
    color_out,         \* colour check: their marker colours, or None
    reviews_in,        \* size check: a pair of raw review counts
    size_out           \* size check: their marker radii, or None

vars == <<session_state, pc, business_type, city, country, submit_button,
          items, df, attempt, exc, msgs, scrapeCalls, narrativeCalls,
          rendered, crashed, rating_in, color_out, reviews_in, size_out>>

\* ------------------------------------------------------- pure functions

AllFilledNoCity(bt, c, co) == bt # "" /\ co # ""
\* line 479: all([business_type, city, country])
AllFilled(bt, c, co) == bt # "" /\ c # "" /\ co # ""

\* line 488: f"{business_type} in {city}, {country}"
search_query(bt, c, co) == [k |-> "query", business_type |-> bt, city |-> c, country |-> co]

NoItemsNever(its) == FALSE
\* line 511: not items
NoItems(its) == Len(its) = 0

\* line 518: df[['title', ..., 'location']] raises KeyError when no record
\* has the key (DataFrame(items) has a column for every key that occurs)
HasLocationColumn(its) == \E i \in 1..Len(its) : its[i].location.k # "absent"

\* lines 526-527: loc.get('lat') if isinstance(loc, dict) else None
Coord(loc, key) ==
    IF loc.k = "dict"
    THEN (IF key = "lat" THEN loc.lat ELSE loc.lng)
    ELSE "missing"

NotNa(c) == c = "num"

\* lines 515-527: the frame with its Latitude and Longitude columns; the
\* index label of a row is its position in items
WithCoords(its) ==
    [i \in 1..Len(its) |->
        [idx |-> i,
         Business_Name |-> its[i].title,
         Stars |-> its[i].totalScore,
         Reviews_Count |-> its[i].reviewsCount,
         Latitude |-> Coord(its[i].location, "lat"),
         Longitude |-> Coord(its[i].location, "lng")]]

DropNaLatitudeOnly(rows) == SelectSeq(rows, LAMBDA r : NotNa(r.Latitude))
\* line 528: df.dropna(subset=['Latitude', 'Longitude'])
DropNa(rows) == SelectSeq(rows, LAMBDA r : NotNa(r.Latitude) /\ NotNa(r.Longitude))

\* lines 531-532: pd.to_numeric(col, errors='coerce').fillna(0)
ToNumericFill0(x) == IF x.k = "num" THEN x.v ELSE 0

Clean(rows) ==
    [i \in 1..Len(rows) |->
        [rows[i] EXCEPT !.Stars = ToNumericFill0(@),
                        !.Reviews_Count = ToNumericFill0(@)]]

RECURSIVE SumStars(_)
SumStars(rows) ==
    IF Len(rows) = 0 THEN 0 ELSE Head(rows).Stars + SumStars(Tail(rows))

\* line 535: df[df['Stars'] > 0]['Stars'].mean(); NaN when nothing is selected
avg_rating(rows) ==
    LET sel == SelectSeq(rows, LAMBDA r : r.Stars > 0)
    IN  IF Len(sel) = 0 THEN [k |-> "nan", sum |-> 0, n |-> 0]
        ELSE [k |-> "mean", sum |-> SumStars(sel), n |-> Len(sel)]

\* f"{x:.2f}" of sum/n tenths, in hundredths, rounding half to even
Round2(sum, n) ==
    LET q == (10 * sum) \div n
        r == (10 * sum) % n
    IN  IF 2 * r < n THEN q
        ELSE IF 2 * r > n THEN q + 1
        ELSE IF q % 2 = 0 THEN q ELSE q + 1

\* line 540
FormatAverage(avg) ==
    IF avg.k = "nan" THEN [k |-> "N/A", hundredths |-> 0]
    ELSE [k |-> "stars", hundredths |-> Round2(avg.sum, avg.n)]

idxmaxLast(rows) ==
    CHOOSE i \in 1..Len(rows) :
        /\ \A j \in 1..Len(rows) : rows[j].Reviews_Count <= rows[i].Reviews_Count
        /\ \A j \in (i+1)..Len(rows) : rows[j].Reviews_Count < rows[i].Reviews_Count
\* line 536: df['Reviews Count'].idxmax(), the first position of the maximum
\* (defined on a non-empty frame only; it raises ValueError on an empty one)
idxmax(rows) ==
    CHOOSE i \in 1..Len(rows) :
        /\ \A j \in 1..Len(rows) : rows[j].Reviews_Count <= rows[i].Reviews_Count
        /\ \A j \in 1..(i-1) : rows[j].Reviews_Count < rows[i].Reviews_Count

\* lines 538-542
Kpis(rows) ==
    LET mv == rows[idxmax(rows)]
    IN  [k |-> "kpis",
         Total_Businesses |-> Len(rows),
         Average_Rating |-> FormatAverage(avg_rating(rows)),
         Most_Visible |-> [name |-> mv.Business_Name, reviews |-> mv.Reviews_Count]]

\* lines 124 and 293: float(kpis["Average Rating"].split()[0]) raises
\* ValueError on "N/A"
FloatRaises(kp) == kp.Average_Rating.k = "N/A"

get_colorStrict(rating) ==
    IF rating > 45 THEN "#27ae60"
    ELSE IF rating >= 40 THEN "#2ecc71"
    ELSE IF rating >= 35 THEN "#f1c40f"
    ELSE IF rating >= 30 THEN "#e67e22"
    ELSE "#e74c3c"
\* lines 317-322
get_color(rating) ==
    IF rating >= 45 THEN "#27ae60"
    ELSE IF rating >= 40 THEN "#2ecc71"
    ELSE IF rating >= 35 THEN "#f1c40f"
    ELSE IF rating >= 30 THEN "#e67e22"
    ELSE "#e74c3c"

get_sizeStrict(reviews) ==
    IF reviews > 200 THEN 15
    ELSE IF reviews >= 100 THEN 12
    ELSE IF reviews >= 50 THEN 9
    ELSE IF reviews >= 20 THEN 6
    ELSE 4
\* lines 324-329
get_size(reviews) ==
    IF reviews >= 200 THEN 15
    ELSE IF reviews >= 100 THEN 12
    ELSE IF reviews >= 50 THEN 9
    ELSE IF reviews >= 20 THEN 6
    ELSE 4

\* lines 300-365: None for an empty frame, else one marker per row
create_enhanced_map(rows) ==
    IF Len(rows) = 0 THEN None
    ELSE [k |-> "map",
          markers |-> [i \in 1..Len(rows) |->
              [label |-> rows[i].Business_Name,
               rating |-> rows[i].Stars,
               reviews |-> rows[i].Reviews_Count,
               radius |-> get_size(rows[i].Reviews_Count),
               fillColor |-> get_color(rows[i].Stars)]]]

\* lines 531 and 333 and 360: the colour of the marker of a record whose
\* raw totalScore is x
MarkerColor(x) == get_color(ToNumericFill0(x))

\* lines 532, 334 and 356: the radius of the marker of a record whose raw
\* reviewsCount is x
MarkerRadius(x) == get_size(ToNumericFill0(x))


\* ------------------------------------------------------------- messages
\* line 480
WarningMessage == [k |-> "warning", text |-> "fill in all required fields"]
\* line 512
NoResultsMessage == [k |-> "error", text |-> "No results found"]
ErrorMessageConst(e) == [k |-> "error", text |-> "An error occurred"]
\* line 559: st.error(f"An error occurred: {str(e)}")
ErrorMessage(e) == [k |-> "error", text |-> e]
\* line 560
InfoMessage == [k |-> "info", text |-> "API limits or connectivity issues"]
\* line 556
SuccessMessage == [k |-> "success", text |-> "Analysis complete"]

\* texts of the exceptions the script itself raises
KeyErrorToken == "KeyError: APIFY_TOKEN"
KeyErrorGoogle == "KeyError: GOOGLE_API_KEY"
KeyErrorLocation == "KeyError: ['location'] not in index"
ValueErrorArgmax == "ValueError: attempt to get argmax of an empty sequence"
ValueErrorFloat == "ValueError: could not convert string to float: 'N/A'"

\* lines 281-297: the fallback text (defined when FloatRaises(kp) is false)
FallbackAnalysis(e, kp) == [k |-> "fallback", text |-> e, kpis |-> kp]
\* line 274: the provider's text
NarrativeText == [k |-> "text", text |-> "analysis", kpis |-> None]

\* ---------------------------------------------------------------- state
NoException == [at |-> "none", text |-> ""]

\* lines 424-433, then the first script run without a submission
Init ==
    /\ session_state = [map_data |-> None, analysis |-> None, kpis |-> None,
                        df |-> None, last_search |-> None]
    /\ pc = "idle"
    /\ business_type = "" /\ city = "" /\ country = "Canada"
    /\ submit_button = FALSE
    /\ items = <<>>
    /\ df = None
    /\ attempt = 0
    /\ exc = NoException
    /\ msgs = {}
    /\ scrapeCalls = 0 /\ narrativeCalls = 0
    /\ rendered = {"placeholder"}
    /\ crashed = FALSE
    /\ rating_in = <<Null, Null>>
    /\ color_out = None
    /\ reviews_in = <<Null, Null>>
    /\ size_out = None

ColourVars == <<rating_in, color_out>>
SizeVars == <<reviews_in, size_out>>
FormVars == <<business_type, city, country, submit_button>>

\* a fresh script run: the locals of the previous run are gone
FreshRun(bt, c, co, submit) ==
    /\ business_type' = bt /\ city' = c /\ country' = co
    /\ submit_button' = submit
    /\ items' = <<>>
    /\ df' = None
    /\ attempt' = 0
    /\ exc' = NoException
    /\ scrapeCalls' = 0 /\ narrativeCalls' = 0
    /\ rendered' = {}
    /\ crashed' = FALSE

\* a rerun that is not a submission of the search form (a template button,
\* the export button, a map interaction): lines 478 is false
Rerun(bt, c, co) ==
    /\ pc = "idle"
    /\ FreshRun(bt, c, co, FALSE)
    /\ msgs' = {}
    /\ pc' = "display"
    /\ UNCHANGED <<session_state, ColourVars, SizeVars>>

\* lines 478-480
SubmitInvalid(bt, c, co) ==
    /\ pc = "idle"
    /\ ~AllFilled(bt, c, co)
    /\ FreshRun(bt, c, co, TRUE)
    /\ msgs' = {WarningMessage}
    /\ pc' = "display"
    /\ UNCHANGED <<session_state, ColourVars, SizeVars>>

ClearResultsKeep(ss, q) == [ss EXCEPT !.last_search = q]
\* lines 482-489: clear the previous results, store the query
ClearResults(ss, q) ==
    [ss EXCEPT !.map_data = None, !.analysis = None, !.kpis = None,
               !.df = None, !.last_search = q]

\* lines 478-496
SubmitValid(bt, c, co) ==
    /\ pc = "idle"
    /\ AllFilled(bt, c, co)
    /\ FreshRun(bt, c, co, TRUE)
    /\ session_state' = ClearResults(session_state, search_query(bt, c, co))
    /\ msgs' = {}
    /\ pc' = "scrape"
    /\ UNCHANGED <<ColourVars, SizeVars>>

\* lines 558-560: the handler of the outer try
Except(e, at) ==
    /\ msgs' = msgs \cup {ErrorMessage(e), InfoMessage}
    /\ exc' = [at |-> at, text |-> e]
    /\ pc' = "display"

\* line 499: st.secrets["APIFY_TOKEN"] raises KeyError
TokenMissing ==
    /\ pc = "scrape"
    /\ Except(KeyErrorToken, "token")
    /\ UNCHANGED <<session_state, FormVars, items, df, attempt, scrapeCalls,
                   narrativeCalls, rendered, crashed, ColourVars, SizeVars>>

\* line 505: the actor call raises
ActorCallRaises(e) ==
    /\ pc = "scrape"
    /\ scrapeCalls' = scrapeCalls + 1
    /\ Except(e, "actor")
    /\ UNCHANGED <<session_state, FormVars, items, df, attempt,
                   narrativeCalls, rendered, crashed, ColourVars, SizeVars>>

\* line 505: the actor call returns a run
ActorCallReturns ==
    /\ pc = "scrape"
    /\ scrapeCalls' = scrapeCalls + 1
    /\ pc' = "iterate"
    /\ UNCHANGED <<session_state, FormVars, items, df, attempt, exc, msgs,
                   narrativeCalls, rendered, crashed, ColourVars, SizeVars>>

\* line 506: iterate_items() yields one more record
IterateItem(r) ==
    /\ pc = "iterate"
    /\ Len(items) < MaxItems
    /\ items' = Append(items, [r EXCEPT !.title = Len(items) + 1])
    /\ UNCHANGED <<session_state, pc, FormVars, df, attempt, exc, msgs,
                   scrapeCalls, narrativeCalls, rendered, crashed, ColourVars, SizeVars>>

\* line 506: iterate_items() raises; the list under construction is lost
IterateRaises(e) ==
    /\ pc = "iterate"
    /\ items' = <<>>
    /\ Except(e, "iterate")
    /\ UNCHANGED <<session_state, FormVars, df, attempt, scrapeCalls,
                   narrativeCalls, rendered, crashed, ColourVars, SizeVars>>

\* lines 506-546 and 207-266: the dataset is exhausted; the script runs up
\* to the narrative provider
IterateDone ==
    /\ pc = "iterate"
    /\ IF NoItems(items)
       THEN /\ msgs' = msgs \cup {NoResultsMessage}
            /\ pc' = "display"
            /\ UNCHANGED <<session_state, df, exc>>
       ELSE IF ~HasLocationColumn(items)
       THEN /\ Except(KeyErrorLocation, "select")
            /\ UNCHANGED <<session_state, df>>
       ELSE LET rows == Clean(DropNa(WithCoords(items)))
            IN  /\ df' = [k |-> "df", rows |-> rows]
                /\ IF Len(rows) = 0
                   THEN /\ Except(ValueErrorArgmax, "idxmax")
                        /\ UNCHANGED session_state
                   ELSE /\ session_state' =
                              [session_state EXCEPT !.kpis = Kpis(rows),
                                                    !.df = [k |-> "df", rows |-> rows]]
                        /\ pc' = "narrative"
                        /\ UNCHANGED <<exc, msgs>>
    /\ UNCHANGED <<FormVars, items, attempt, scrapeCalls, narrativeCalls,
                   rendered, crashed, ColourVars, SizeVars>>

\* lines 549-556: generate_enhanced_analysis returned a
AnalysisReturns(a) ==
    /\ session_state' = [session_state EXCEPT !.analysis = a,
                                              !.map_data = create_enhanced_map(df.rows)]
    /\ msgs' = msgs \cup {SuccessMessage}
    /\ pc' = "display"
    /\ UNCHANGED exc

\* lines 280-297: the handler inside generate_enhanced_analysis; the
\* fallback text itself raises when the average rating is "N/A", and that
\* exception reaches line 558
AnalysisExcept(e) ==
    IF FloatRaises(session_state.kpis)
    THEN /\ Except(ValueErrorFloat, "fallback")
         /\ UNCHANGED session_state
    ELSE AnalysisReturns(FallbackAnalysis(e, session_state.kpis))

\* line 265: st.secrets["GOOGLE_API_KEY"] raises KeyError
ConfigureKeyMissing ==
    /\ pc = "narrative"
    /\ narrativeCalls = 0
    /\ AnalysisExcept(KeyErrorGoogle)
    /\ UNCHANGED <<FormVars, items, df, attempt, scrapeCalls, narrativeCalls,
                   rendered, crashed, ColourVars, SizeVars>>

\* lines 272-274: generate_content returns a non-empty text
GenerateReturnsText ==
    /\ pc = "narrative"
    /\ narrativeCalls' = narrativeCalls + 1
    /\ AnalysisReturns(NarrativeText)
    /\ UNCHANGED <<FormVars, items, df, attempt, scrapeCalls,
                   rendered, crashed, ColourVars, SizeVars>>

\* lines 270-273, 279: generate_content returns an empty text; after the
\* last attempt the function falls off its end and returns None
GenerateReturnsEmpty ==
    /\ pc = "narrative"
    /\ narrativeCalls' = narrativeCalls + 1
    /\ attempt' = attempt + 1
    /\ IF attempt + 1 = max_retries
       THEN AnalysisReturns(None)
       ELSE UNCHANGED <<session_state, msgs, pc, exc>>
    /\ UNCHANGED <<FormVars, items, df, scrapeCalls,
                   rendered, crashed, ColourVars, SizeVars>>

\* lines 272-278: generate_content (or response.text) raises
GenerateRaises(e) ==
    /\ pc = "narrative"
    /\ narrativeCalls' = narrativeCalls + 1
    /\ IF attempt = max_retries - 1
       THEN /\ AnalysisExcept(e)
            /\ UNCHANGED attempt
       ELSE /\ attempt' = attempt + 1
            /\ UNCHANGED <<session_state, msgs, pc, exc>>
    /\ UNCHANGED <<FormVars, items, df, scrapeCalls,
                   rendered, crashed, ColourVars, SizeVars>>

\* lines 563-564, 103-132: the dashboard is rendered when kpis and df are
\* stored; render_kpi_dashboard raises at line 124 on "N/A"
DashboardShown == session_state.kpis # None /\ session_state.df # None
DashboardRaises == DashboardShown /\ FloatRaises(session_state.kpis)

\* lines 562-628
Display ==
    /\ pc = "display"
    /\ IF DashboardRaises
       THEN /\ crashed' = TRUE
            /\ rendered' = {}
       ELSE /\ crashed' = FALSE
            /\ rendered' =
                  (IF DashboardShown THEN {"kpi_dashboard"} ELSE {})
                  \cup (IF session_state.analysis # None THEN {"analysis"} ELSE {})
                  \cup (IF session_state.map_data # None THEN {"map"} ELSE {"placeholder"})
    /\ pc' = "idle"
    /\ UNCHANGED <<session_state, FormVars, items, df, attempt, exc, msgs,
                   scrapeCalls, narrativeCalls, ColourVars, SizeVars>>

Next ==
    \/ \E bt \in BusinessTypes, c \in Cities, co \in Countries : Rerun(bt, c, co)
    \/ \E bt \in BusinessTypes, c \in Cities, co \in Countries : SubmitInvalid(bt, c, co)
    \/ \E bt \in BusinessTypes, c \in Cities, co \in Countries : SubmitValid(bt, c, co)
    \/ TokenMissing
    \/ \E e \in ProviderErrors : ActorCallRaises(e)
    \/ ActorCallReturns
    \/ \E r \in RawRecords : IterateItem(r)
    \/ \E e \in ProviderErrors : IterateRaises(e)
    \/ IterateDone
    \/ ConfigureKeyMissing
    \/ GenerateReturnsText
    \/ GenerateReturnsEmpty
    \/ \E e \in ProviderErrors : GenerateRaises(e)
    \/ Display

Spec == Init /\ [][Next]_vars

\* ------------------------------------------- the colour function alone
\* The marker colour of a pair of raw ratings, as lines 531, 333 and 360
\* compute it.
PickRatings(x, y) ==
    /\ color_out = None
    /\ rating_in' = <<x, y>>
    /\ color_out' = [k |-> "colors", c |-> <<MarkerColor(x), MarkerColor(y)>>]
    /\ UNCHANGED <<session_state, pc, FormVars, items, df, attempt, exc,
                   msgs, scrapeCalls, narrativeCalls, rendered, crashed, SizeVars>>

ResetRatings ==
    /\ color_out # None
    /\ color_out' = None
    /\ rating_in' = <<Null, Null>>
    /\ UNCHANGED <<session_state, pc, FormVars, items, df, attempt,
                   exc, msgs, scrapeCalls, narrativeCalls, rendered, crashed,
                   SizeVars>>

NextColour ==
    \/ \E x \in RawRatings, y \in RawRatings : PickRatings(x, y)
    \/ ResetRatings

SpecColour == Init /\ [][NextColour]_vars

\* --------------------------------------------- the size function alone
\* The marker radius of a pair of raw review counts, as lines 532, 334 and
\* 356 compute it.
InitSize ==
    /\ session_state = [map_data |-> None, analysis |-> None, kpis |-> None,
                        df |-> None, last_search |-> None]
    /\ pc = "idle"
    /\ business_type = "" /\ city = "" /\ country = "Canada"
    /\ submit_button = FALSE
    /\ items = <<>> /\ df = None /\ attempt = 0 /\ exc = NoException
    /\ msgs = {} /\ scrapeCalls = 0 /\ narrativeCalls = 0
    /\ rendered = {"placeholder"} /\ crashed = FALSE
    /\ rating_in = <<Null, Null>> /\ color_out = None
    /\ reviews_in \in RawReviews \X RawReviews
    /\ size_out = None

ApplySize ==
    /\ size_out = None
    /\ size_out' = [k |-> "sizes",
                    r |-> <<MarkerRadius(reviews_in[1]), MarkerRadius(reviews_in[2])>>]
    /\ UNCHANGED <<reviews_in, session_state, pc, FormVars, items, df, attempt,
                   exc, msgs, scrapeCalls, narrativeCalls, rendered, crashed,
                   ColourVars>>

ResetSize ==
    /\ size_out # None
    /\ size_out' = None
    /\ UNCHANGED <<reviews_in, session_state, pc, FormVars, items, df, attempt,
                   exc, msgs, scrapeCalls, narrativeCalls, rendered, crashed,
                   ColourVars>>

NextSize == ApplySize \/ ResetSize

SpecSize == InitSize /\ [][NextSize]_vars


\* ======================================================== properties

NoneStored ==
    /\ session_state.kpis = None /\ session_state.df = None
    /\ session_state.analysis = None /\ session_state.map_data = None

RunOver == pc \in {"display", "idle"}

\* the raw record has a location that is a mapping holding lat and lng
Located(r) ==
    r.location.k = "dict" /\ r.location.lat = "num" /\ r.location.lng = "num"

LocatedIdx == { i \in 1..Len(items) : Located(items[i]) }

\* the review count of a raw record, 0 when it is not a number
ReviewsOf(r) == IF r.reviewsCount.k = "num" THEN r.reviewsCount.v ELSE 0

\* kpis were computed by the current run, from items
KpisOfThisRun ==
    /\ submit_button /\ business_type # "" /\ city # "" /\ country # ""
    /\ session_state.kpis # None

\* C1: when the scrape provider call (actor call or dataset iteration)
\* raises in a validated submission, the exception is caught at line 558, an
\* error message with the provider's error text is shown, the run goes on
\* to the display section and ends without an uncaught exception, and none
\* of kpis, df, analysis, map_data is stored.
C1_ScrapeFailureCaught ==
    exc.at \in {"actor", "iterate"} =>
        /\ exc.text \in ProviderErrors
        /\ [k |-> "error", text |-> exc.text] \in msgs
        /\ RunOver
        /\ ~crashed
        /\ (pc = "idle" => rendered = {"placeholder"})
        /\ NoneStored

C1_Witness ==
    /\ pc = "idle" /\ exc = [at |-> "iterate", text |-> "quota"]
    /\ rendered = {"placeholder"} /\ scrapeCalls = 1

\* C2: a submission with an empty business type, city or country shows the
\* warning, calls neither provider and leaves the session state unchanged:
\* every step of such a run keeps session_state, and the run goes straight
\* to the display section.
C2_InvalidSubmissionBlocked ==
    [][ (submit_button' /\ (business_type' = "" \/ city' = "" \/ country' = "")) =>
            /\ session_state' = session_state
            /\ WarningMessage \in msgs'
            /\ scrapeCalls' = 0 /\ narrativeCalls' = 0
            /\ pc' \in {"display", "idle"} ]_vars

C2_Witness ==
    /\ pc = "idle" /\ submit_button /\ city = "" /\ business_type # ""
    /\ WarningMessage \in msgs
    /\ session_state.kpis # None /\ session_state.map_data # None

\* C3: when the scrape provider returns zero records, the "no results"
\* message is shown and the pipeline stops before normalization,
\* aggregation, encoding and the narrative call: no frame is built, the
\* narrative provider is not called and kpis, df, analysis, map_data stay
\* None.
C3_EmptyResultHalts ==
    (RunOver /\ scrapeCalls = 1 /\ items = <<>> /\ exc.at \notin {"actor", "iterate"}) =>
        /\ NoResultsMessage \in msgs
        /\ exc = NoException
        /\ df = None
        /\ narrativeCalls = 0
        /\ NoneStored
        /\ (pc = "idle" => ~crashed /\ rendered = {"placeholder"})

C3_Witness ==
    /\ pc = "idle" /\ scrapeCalls = 1 /\ items = <<>> /\ exc = NoException
    /\ NoResultsMessage \in msgs

\* C4: for a validated submission whose scrape returned at least one record
\* with coordinates, whatever the narrative provider does, map_data is
\* stored and the KPI dashboard and the map are rendered.
C4_NarrativeNeverBlocks ==
    (pc = "idle" /\ submit_button /\ LocatedIdx # {}) =>
        /\ session_state.map_data # None
        /\ {"kpi_dashboard", "map"} \subseteq rendered

\* C5 as stated: each provider is invoked at most once per submission.
C5_NoRetries == scrapeCalls <= 1 /\ narrativeCalls <= 1

\* C5: within one submission the scrape actor call is invoked at most once,
\* and generate_content at most three times, each further invocation
\* following an attempt that raised or returned an empty text.
C5_BoundedRetries ==
    /\ scrapeCalls <= 1
    /\ narrativeCalls <= 3
    /\ (pc = "narrative" => narrativeCalls = attempt /\ session_state.analysis = None)

C5_Witness ==
    /\ pc = "idle" /\ scrapeCalls = 1 /\ narrativeCalls = 3
    /\ session_state.analysis = NarrativeText

\* C6: when the scrape returns a non-empty list and every record is dropped
\* for missing coordinates, aggregation yields count 0 with the scalar
\* metrics unknown, and raises no exception.
C6_EmptyFrameAggregates ==
    (RunOver /\ Len(items) > 0 /\ LocatedIdx = {}) =>
        /\ exc = NoException
        /\ session_state.kpis # None
        /\ session_state.kpis.Total_Businesses = 0
        /\ session_state.kpis.Average_Rating.k = "N/A"

\* C7: the retained records are exactly the raw records whose location is a
\* mapping holding lat and lng, in input order; the others are dropped, and
\* a dropped record does not stop the remaining ones from being processed.
C7_CoordinateInvariant ==
    /\ (pc \in {"narrative", "display", "idle"} /\ LocatedIdx # {}) => df # None
    /\ df # None =>
        /\ Len(df.rows) = Cardinality(LocatedIdx)
        /\ \A j \in 1..Len(df.rows) :
              /\ df.rows[j].idx \in LocatedIdx
              /\ df.rows[j].Business_Name = items[df.rows[j].idx].title
              /\ df.rows[j].Latitude = "num" /\ df.rows[j].Longitude = "num"
        /\ \A j, l \in 1..Len(df.rows) : j < l => df.rows[j].idx < df.rows[l].idx
        /\ (session_state.df # None => session_state.df = df)

C7_Witness ==
    /\ pc = "idle" /\ Len(items) = 3
    /\ items[1].location = LocOk
    /\ items[2].location = Loc("dict", "num", "missing")
    /\ items[3].location = LocOk
    /\ session_state.df # None /\ Len(session_state.df.rows) = 2
    /\ session_state.df.rows[2].idx = 3

RECURSIVE KnownSum(_)
KnownSum(S) ==
    IF S = {} THEN 0
    ELSE LET i == CHOOSE x \in S : TRUE
         IN  items[i].totalScore.v + KnownSum(S \ {i})

\* C8: the average rating is the arithmetic mean over exactly the retained
\* records with a known (numeric) rating, and "N/A" when there is none.
C8_MeanOfKnownRatings ==
    KpisOfThisRun =>
        LET known == { i \in LocatedIdx : items[i].totalScore.k = "num" }
            avg == session_state.kpis.Average_Rating
        IN  IF known = {} THEN avg.k = "N/A"
            ELSE /\ avg.k = "stars"
                 /\ avg.hundredths = Round2(KnownSum(known), Cardinality(known))

\* C9: Most Visible is the retained record with the maximum review count,
\* the first one in input order when several share the maximum.
C9_MostVisibleFirstMax ==
    KpisOfThisRun =>
        \E i \in LocatedIdx :
            /\ session_state.kpis.Most_Visible.name = items[i].title
            /\ session_state.kpis.Most_Visible.reviews = ReviewsOf(items[i])
            /\ \A j \in LocatedIdx : ReviewsOf(items[j]) <= ReviewsOf(items[i])
            /\ \A j \in LocatedIdx : j < i => ReviewsOf(items[j]) < ReviewsOf(items[i])

C9_Witness ==
    /\ pc = "idle" /\ Len(items) = 3 /\ KpisOfThisRun
    /\ ~Located(items[1]) /\ ReviewsOf(items[1]) = 250
    /\ Located(items[2]) /\ ReviewsOf(items[2]) = 60
    /\ Located(items[3]) /\ ReviewsOf(items[3]) = 60
    /\ session_state.kpis.Most_Visible = [name |-> 2, reviews |-> 60]

\* the colour classes, worst to best
Rank(c) ==
    CASE c = "#e74c3c" -> 0
      [] c = "#e67e22" -> 1
      [] c = "#f1c40f" -> 2
      [] c = "#2ecc71" -> 3
      [] c = "#27ae60" -> 4

BoundaryRank(v) ==
    CASE v = 29 -> 0 [] v = 30 -> 1 [] v = 34 -> 1 [] v = 35 -> 2
      [] v = 39 -> 2 [] v = 40 -> 3 [] v = 44 -> 3 [] v = 45 -> 4

\* C10: the marker colour is monotone in the rating: for known ratings
\* r1 < r2 the class of r1 is never better than that of r2; the classes
\* change at 3.0, 3.5, 4.0 and 4.5, each boundary belonging to the higher
\* class; an unknown rating has the lowest class (red).
C10_ColourMonotone ==
    color_out # None =>
        LET x == rating_in[1]
            y == rating_in[2]
            cx == color_out.c[1]
            cy == color_out.c[2]
        IN  /\ (x.k = "num" /\ y.k = "num" /\ x.v < y.v) => Rank(cx) <= Rank(cy)
            /\ (x.k = "num" /\ x.v \in {29, 30, 34, 35, 39, 40, 44, 45})
                   => Rank(cx) = BoundaryRank(x.v)
            /\ x.k # "num" => cx = "#e74c3c"
            /\ (x = y => cx = cy)

C10_Witness ==
    /\ color_out # None
    /\ rating_in = <<Num(44), Num(45)>>
    /\ color_out.c = <<"#2ecc71", "#27ae60">>


\* C11: the marker radius is non-decreasing in the review count and lies
\* in [4, 15]: for counts c1 <= c2 the radius of c1 is at most that of c2;
\* it is 4 for every count below 20 (an unknown count is 0) and 15 for
\* every count of 200 or more.
C11_SizeMonotone ==
    size_out # None =>
        LET c1 == IF reviews_in[1].k = "num" THEN reviews_in[1].v ELSE 0
            c2 == IF reviews_in[2].k = "num" THEN reviews_in[2].v ELSE 0
            r1 == size_out.r[1]
            r2 == size_out.r[2]
        IN  /\ c1 <= c2 => r1 <= r2
            /\ r1 \in 4..15 /\ r2 \in 4..15
            /\ c1 < 20 => r1 = 4
            /\ c1 >= 200 => r1 = 15

C11_Witness ==
    /\ size_out # None
    /\ reviews_in = <<Num(19), Num(200)>>
    /\ size_out.r = <<4, 15>>


Results ==
    <<session_state.kpis, session_state.df, session_state.analysis,
      session_state.map_data>>

\* C12: after any sequence of submissions, every non-None value among
\* kpis, df, analysis and map_data was produced by the most recent
\* validated submission, the one whose query is in last_search: a validated
\* submission stores its query and has all four None when it calls the
\* scrape provider, and afterwards the four change only in steps of a run
\* whose query is last_search.
C12_ResultsOfLastSearch ==
    /\ [](pc \in {"scrape", "iterate", "narrative"} =>
            /\ submit_button
            /\ session_state.last_search = search_query(business_type, city, country))
    /\ [](pc \in {"scrape", "iterate"} => NoneStored)
    /\ [][ /\ session_state.last_search' # session_state.last_search => NoneStored'
           /\ Results' # Results =>
                /\ submit_button'
                /\ session_state.last_search' =
                       search_query(business_type', city', country') ]_vars

C12_Witness ==
    /\ pc = "idle" /\ submit_button /\ business_type = "dentist" /\ city = ""
    /\ session_state.last_search = search_query("plumber", "Toronto", "Canada")
    /\ session_state.kpis # None /\ session_state.analysis = NarrativeText
    /\ session_state.map_data # None
    /\ rendered = {"kpi_dashboard", "analysis", "map"}

\* C13: whenever kpis and df are stored, render_kpi_dashboard completes
\* without raising, also when the stored Average Rating is "N/A": a run
\* that reaches the dashboard renders it and ends without an uncaught
\* exception.
C13_DashboardNeverRaises ==
    (pc = "idle" /\ session_state.kpis # None /\ session_state.df # None) =>
        /\ ~crashed
        /\ "kpi_dashboard" \in rendered

====
